---- MODULE Spec2Model ----
(***************************************************************************)
(* Model of givenergy_modbus.model: the register cache (register_cache.py) *)
(* and the scalar renderer (register.py, Type.render).                     *)
(*                                                                         *)
(* Conventions                                                             *)
(*   - an optional raw word is a sequence: <<>> is Python's None (the      *)
(*     Absent indicator), <<w>> is the word w;                             *)
(*   - text produced by the helpers is a sequence of code points;          *)
(*   - a serialized key is a sequence of one-character strings;            *)
(*   - an operation's result is a record: [kind |-> "ok", value |-> v] or  *)
(*     [kind |-> "raise", exc |-> <exception class>, names |-> <the        *)
(*     registers the exception names>].                                    *)
(***************************************************************************)
EXTENDS Integers, Sequences, FiniteSets

VARIABLES cache, written, last

vars == <<cache, written, last>>

(***************************************************************************)
(* Bounds of the model.                                                    *)
(***************************************************************************)
\* the largest number of registers handed to a variadic helper
MaxArgs == 2
\* the largest number of entries of a serialized text handed to from_json
MaxEntries == 2

(***************************************************************************)
(* Values.                                                                 *)
(***************************************************************************)
None == <<>>

Some(w) == <<w>>

\* the raw words the modelled device writes into the cache
Words == {0, 2, 13, 30, 255, 16706}

(***************************************************************************)
(* Register identities.  HR and IR are the two constructors imported by    *)
(* register_cache.py; any offset makes an identity.                        *)
(***************************************************************************)
HR(n) == [bank |-> "HR", idx |-> n]

IR(n) == [bank |-> "IR", idx |-> n]

\* the identities the modelled callers use: two defined registers and one
\* whose offset is beyond the static tables (HR ends at 120, IR at 181)
Registers == {HR(5), HR(57), IR(400)}

RegSeqs(n) == UNION {[1..k -> Registers] : k \in 0..n}

(***************************************************************************)
(* Results.                                                                *)
(***************************************************************************)
Ok(v) == [kind |-> "ok", value |-> v]

Raise(e, regs) == [kind |-> "raise", exc |-> e, names |-> regs]

NoCall == [op |-> "none"]

Call(op, args, out) == [op |-> op, args |-> args, outcome |-> out]

(***************************************************************************)
(* The mapping: RegisterCache is a defaultdict whose default factory is    *)
(* lambda: None.                                                           *)
(***************************************************************************)
EmptyCache == [r \in {} |-> None]

Put(c, r, v) == [x \in (DOMAIN c) \cup {r} |-> IF x = r THEN v ELSE c[x]]

\* get of a mapping that defaults to the integer 0
getZeroDefault(c, r, default) == IF r \in DOMAIN c THEN c[r] ELSE Some(0)

\* dict.get(r, default): no default factory involved
get(c, r, default) == IF r \in DOMAIN c THEN c[r] ELSE default

\* defaultdict.__missing__: the factory's value is stored under the key
Missing(c, r) == Put(c, r, None)

\* self[r], the value
GetItem(c, r) == IF r \in DOMAIN c THEN c[r] ELSE None

\* self[r], the mapping afterwards
AfterGetItem(c, r) == IF r \in DOMAIN c THEN c ELSE Missing(c, r)

\* the positions of regs whose self[r] is None
NonePositions(c, regs) == {i \in 1..Len(regs) : GetItem(c, regs[i]) = None}

FirstNone(c, regs) == CHOOSE i \in NonePositions(c, regs) :
                         \A j \in NonePositions(c, regs) : i <= j

\* self[r] for each r of regs in turn, stopping at the first one that makes
\* the expression using it raise: the mapping afterwards
AfterReadUntilNone(c, regs) ==
    IF NonePositions(c, regs) = {} THEN c
    ELSE AfterGetItem(c, regs[FirstNone(c, regs)])

RECURSIVE AfterReadAll(_, _)
\* self[r] for every r of regs: the mapping afterwards
AfterReadAll(c, regs) ==
    IF regs = <<>> THEN c
    ELSE AfterReadAll(AfterGetItem(c, Head(regs)), Tail(regs))

RawOf(c, regs) == [i \in 1..Len(regs) |-> GetItem(c, regs[i])[1]]

(***************************************************************************)
(* Integer and text primitives of the Python expressions used below.       *)
(***************************************************************************)
\* v << n, for a result below 2^31
Shl(v, n) == v * (2 ^ n)

\* v >> n, for v >= 0
Shr(v, n) == v \div (2 ^ n)

RECURSIVE ToBig(_)
\* Python's integers are unbounded.  An integer that can pass 2^31 is carried
\* as the sequence of its base-10000 digits, lowest first
ToBig(n) == IF n < 10000 THEN <<n>> ELSE <<n % 10000>> \o ToBig(n \div 10000)

RECURSIVE BigCarry(_, _)
BigCarry(limbs, carry) ==
    IF limbs = <<>> THEN (IF carry = 0 THEN <<>> ELSE ToBig(carry))
    ELSE <<(Head(limbs) + carry) % 10000>>
             \o BigCarry(Tail(limbs), (Head(limbs) + carry) \div 10000)

BigLimb(a, i) == IF i <= Len(a) THEN a[i] ELSE 0

\* a + b
BigAdd(a, b) ==
    BigCarry([i \in 1..(IF Len(a) >= Len(b) THEN Len(a) ELSE Len(b)) |->
                  BigLimb(a, i) + BigLimb(b, i)], 0)

\* v << n, for 0 <= v < 2^16 and n <= 16
BigShl(v, n) == BigCarry([i \in 1..Len(ToBig(v)) |-> ToBig(v)[i] * (2 ^ n)], 0)

RECURSIVE BitAnd(_, _)
\* a & b, for a, b >= 0
BitAnd(a, b) ==
    IF a = 0 \/ b = 0 THEN 0
    ELSE (IF a % 2 = 1 /\ b % 2 = 1 THEN 1 ELSE 0) + 2 * BitAnd(a \div 2, b \div 2)

RECURSIVE Flatten(_)
\* "".join(seqs), sum(seqs, ())
Flatten(seqs) == IF seqs = <<>> THEN <<>> ELSE Head(seqs) \o Flatten(Tail(seqs))

\* ToBytes2 with the low byte first
ToBytes2LittleEndian(v) == <<v % 256, v \div 256>>

\* value.to_bytes(2, byteorder="big")
ToBytes2(v) == <<v \div 256, v % 256>>

\* bytes.decode("latin1"): every byte is the code point of the same number
DecodeLatin1(bytes) == bytes

\* str.isalnum for one character of Latin-1
IsAlnum(cp) ==
    \/ cp \in 48..57
    \/ cp \in 65..90
    \/ cp \in 97..122
    \/ cp \in {170, 178, 179, 181, 185, 186, 188, 189, 190}
    \/ cp \in 192..214
    \/ cp \in 216..246
    \/ cp \in 248..255

\* str.upper for one character of Latin-1: a string, since the sharp s
\* becomes two letters, and micro and y-diaeresis leave Latin-1
UpperChar(cp) ==
    IF cp \in 97..122 THEN <<cp - 32>>
    ELSE IF cp = 181 THEN <<924>>
    ELSE IF cp = 223 THEN <<83, 83>>
    ELSE IF cp = 255 THEN <<376>>
    ELSE IF cp \in 224..254 /\ cp # 247 THEN <<cp - 32>>
    ELSE <<cp>>

\* "".join(filter(str.isalnum, s)).upper()
AlnumUpper(s) == Flatten([i \in 1..Len(SelectSeq(s, IsAlnum)) |->
                              UpperChar(SelectSeq(s, IsAlnum)[i])])

HexDigit(d) == IF d < 10 THEN 48 + d ELSE 97 + (d - 10)

RECURSIVE HexDigits(_)
HexDigits(v) ==
    IF v < 16 THEN <<HexDigit(v)>>
    ELSE HexDigits(v \div 16) \o <<HexDigit(v % 16)>>

\* the zero padding of a width-4 format
ZeroPad4(s) == [i \in 1..(4 - Len(s)) |-> 48] \o s

\* Format04x without the padding
Format04xUnpadded(v) == HexDigits(v)

\* f"{v:04x}"
Format04x(v) == IF Len(HexDigits(v)) >= 4 THEN HexDigits(v) ELSE ZeroPad4(HexDigits(v))

\* bool(s) of a string
Truthy(s) == Len(s) > 0

\* all(values)
All(values) == \A i \in 1..Len(values) : Truthy(values[i])

(***************************************************************************)
(* datetime.datetime(year, month, day, hour, minute, second): the          *)
(* arguments are optional words, None makes a TypeError, a field out of    *)
(* range a ValueError.                                                     *)
(***************************************************************************)
IsLeap(y) == y % 4 = 0 /\ (y % 100 # 0 \/ y % 400 = 0)

DaysInMonth(y, m) ==
    IF m = 2 THEN (IF IsLeap(y) THEN 29 ELSE 28)
    ELSE IF m \in {4, 6, 9, 11} THEN 30 ELSE 31

Timestamp(y, m, d, h, mi, s) ==
    [year |-> y, month |-> m, day |-> d, hour |-> h, minute |-> mi, second |-> s]

datetime(y, m, d, h, mi, s) ==
    IF None \in {y, m, d, h, mi, s} THEN Raise("TypeError", <<>>)
    ELSE IF /\ y[1] \in 1..9999
            /\ m[1] \in 1..12
            /\ d[1] \in 1..DaysInMonth(y[1], m[1])
            /\ h[1] \in 0..23
            /\ mi[1] \in 0..59
            /\ s[1] \in 0..59
         THEN Ok(Timestamp(y[1], m[1], d[1], h[1], mi[1], s[1]))
         ELSE Raise("ValueError", <<>>)

(***************************************************************************)
(* TimeSlot.from_repr(start, end): the collaborator that unpacks two       *)
(* words holding hour * 100 + minute.  It is handed values, never          *)
(* registers.                                                              *)
(***************************************************************************)
from_repr(start, end) ==
    IF start = None \/ end = None THEN Raise("TypeError", <<>>)
    ELSE IF \E w \in {start[1], end[1]} : w \div 100 > 23 \/ w % 100 > 59
         THEN Raise("ValueError", <<>>)
         ELSE Ok([start |-> <<start[1] \div 100, start[1] % 100>>,
                  end |-> <<end[1] \div 100, end[1] % 100>>])

(***************************************************************************)
(* The composition helpers: the value each returns or the exception it     *)
(* raises, and the mapping it leaves behind.                               *)
(***************************************************************************)
to_string(c, regs) ==
    IF NonePositions(c, regs) # {} THEN Raise("AttributeError", <<>>)
    ELSE Ok(AlnumUpper(Flatten([i \in 1..Len(regs) |->
                DecodeLatin1(ToBytes2(RawOf(c, regs)[i]))])))

\* to_hex_string reads every register twice: first for the list values that
\* all() tests, second for the text it returns
HexOf(first, second) ==
    IF All([i \in 1..Len(first) |-> Format04x(first[i])])
    THEN AlnumUpper(Flatten([i \in 1..Len(second) |-> Format04x(second[i])]))
    ELSE <<>>

to_hex_string(c, regs) ==
    IF NonePositions(c, regs) # {} THEN Raise("TypeError", <<>>)
    ELSE Ok(HexOf(RawOf(c, regs), RawOf(c, regs)))

\* to_duint8 with the low byte of each word first
to_duint8LowFirst(c, regs) ==
    IF NonePositions(c, regs) # {} THEN Raise("TypeError", <<>>)
    ELSE Ok(Flatten([i \in 1..Len(regs) |->
                <<BitAnd(RawOf(c, regs)[i], 255), Shr(RawOf(c, regs)[i], 8)>>]))

to_duint8(c, regs) ==
    IF NonePositions(c, regs) # {} THEN Raise("TypeError", <<>>)
    ELSE Ok(Flatten([i \in 1..Len(regs) |->
                <<Shr(RawOf(c, regs)[i], 8), BitAnd(RawOf(c, regs)[i], 255)>>]))

\* Uint32Of with the high word moved up by one byte only
Uint32OfByteShift(high, low) == BigAdd(BigShl(high, 8), ToBig(low))

\* (high << 16) + low of the two words read
Uint32Of(high, low) == BigAdd(BigShl(high, 16), ToBig(low))

to_uint32(c, high_register, low_register) ==
    IF NonePositions(c, <<high_register, low_register>>) # {}
    THEN Raise("TypeError", <<>>)
    ELSE Ok(Uint32Of(GetItem(c, high_register)[1], GetItem(c, low_register)[1]))

\* the first attempt of to_datetime, inside the try
DatetimeTry(c, y, m, d, h, mi, s) ==
    IF GetItem(c, y) = None THEN Raise("TypeError", <<>>)
    ELSE datetime(Some(GetItem(c, y)[1] + 2000), get(c, m, Some(1)), get(c, d, Some(1)),
                  GetItem(c, h), GetItem(c, mi), GetItem(c, s))

\* the handler of the bare except
DatetimeFallback == datetime(Some(2000), Some(0), Some(0), Some(0), Some(0), Some(0))

to_datetime(c, y, m, d, h, mi, s) ==
    IF DatetimeTry(c, y, m, d, h, mi, s).kind = "ok"
    THEN DatetimeTry(c, y, m, d, h, mi, s)
    ELSE DatetimeFallback

\* self[y] + 2000 raises before the other arguments are read
AfterDatetime(c, y, h, mi, s) ==
    IF GetItem(c, y) = None THEN AfterGetItem(c, y)
    ELSE AfterReadAll(c, <<h, mi, s>>)

to_timeslot(c, start, end) == from_repr(GetItem(c, start), GetItem(c, end))

(***************************************************************************)
(* Type.render(value, scaling).  Scaling.UNIT is the integer 1, so the     *)
(* product stays an integer; DECI and CENTI are the floats 0.1 and 0.01,   *)
(* and the product is carried as the exact fraction it approximates.       *)
(***************************************************************************)
Types == {"BOOL", "WORD", "DWORD_HIGH", "DWORD_LOW", "SWORD", "ASCII"}

Scalings == {"UNIT", "DECI", "CENTI"}

Denominator(scaling) == IF scaling = "DECI" THEN 10 ELSE 100

\* value * scaling
Scaled(value, scaling) ==
    IF scaling = "UNIT" THEN value
    ELSE [float |-> <<value, Denominator(scaling)>>]

\* bytes.decode(encoding="ascii")
DecodeAscii(bytes) ==
    IF \E i \in 1..Len(bytes) : bytes[i] >= 128
    THEN Raise("UnicodeDecodeError", <<>>)
    ELSE Ok(bytes)

\* Signed with the sign taken from bit 14
SignedFromBit14(value) == IF BitAnd(value, Shl(1, 14)) # 0 THEN value - Shl(1, 16) ELSE value

\* the two's complement reading of SWORD
Signed(value) == IF BitAnd(value, Shl(1, 16 - 1)) # 0 THEN value - Shl(1, 16) ELSE value

\* the raw words rendered: every low byte under the high bytes at the ends
\* of the range, around the sign bit and around the letters
HighBytes == {0, 1, 65, 127, 128, 129, 255}

RawWords == {hi * 256 + lo : hi \in HighBytes, lo \in 0..255}

\* render whose BOOL is the truth value of the whole word
renderBoolNonzero(self, value, scaling) ==
    IF self = "DWORD_HIGH" THEN Ok(Scaled(BigShl(value, 16), scaling))
    ELSE IF self = "SWORD" THEN Ok(Scaled(Signed(value), scaling))
    ELSE IF self = "ASCII" THEN DecodeAscii(ToBytes2(value))
    ELSE IF self = "BOOL" THEN Ok(value # 0)
    ELSE Ok(Scaled(value, scaling))

\* render whose BOOL tests the lowest bit of the word divided by the scale
renderBoolAfterScaling(self, value, scaling) ==
    IF self = "DWORD_HIGH" THEN Ok(Scaled(BigShl(value, 16), scaling))
    ELSE IF self = "SWORD" THEN Ok(Scaled(Signed(value), scaling))
    ELSE IF self = "ASCII" THEN DecodeAscii(ToBytes2(value))
    ELSE IF self = "BOOL"
         THEN Ok(BitAnd(IF scaling = "UNIT" THEN value
                        ELSE value \div Denominator(scaling), 1) # 0)
    ELSE Ok(Scaled(value, scaling))

\* render whose DWORD_HIGH moves the word up by one byte only
renderHighByteShift(self, value, scaling) ==
    IF self = "DWORD_HIGH" THEN Ok(Scaled(BigShl(value, 8), scaling))
    ELSE IF self = "SWORD" THEN Ok(Scaled(Signed(value), scaling))
    ELSE IF self = "ASCII" THEN DecodeAscii(ToBytes2(value))
    ELSE IF self = "BOOL" THEN Ok(BitAnd(value, 1) # 0)
    ELSE Ok(Scaled(value, scaling))

render(self, value, scaling) ==
    IF self = "DWORD_HIGH" THEN Ok(Scaled(BigShl(value, 16), scaling))
    ELSE IF self = "SWORD" THEN Ok(Scaled(Signed(value), scaling))
    ELSE IF self = "ASCII" THEN DecodeAscii(ToBytes2(value))
    ELSE IF self = "BOOL" THEN Ok(BitAnd(value, 1) # 0)
    ELSE Ok(Scaled(value, scaling))

(***************************************************************************)
(* Serialization.  A text is the sequence of the <<key, value>> members of *)
(* a JSON object; a value is an optional word (null is None).  The json    *)
(* library writes and reads the values; the keys are the part this         *)
(* repository converts.                                                    *)
(***************************************************************************)
Digits == <<"0", "1", "2", "3", "4", "5", "6", "7", "8", "9">>

IsDigit(ch) == \E i \in 1..10 : Digits[i] = ch

DigitValue(ch) == (CHOOSE i \in 1..10 : Digits[i] = ch) - 1

RECURSIVE Decimal(_)
\* str(n) of an integer n >= 0
Decimal(n) ==
    IF n < 10 THEN <<Digits[n + 1]>>
    ELSE Decimal(n \div 10) \o <<Digits[(n % 10) + 1]>>

\* the bank abbreviations
BankText(bank) == IF bank = "HR" THEN <<"H", "R">> ELSE <<"I", "R">>

\* the canonical textual form of an identity, the key json.dumps writes
RegisterStr(r) == BankText(r.bank) \o <<"(">> \o Decimal(r.idx) \o <<")">>

RegisterBefore(a, b) ==
    \/ a.bank = "HR" /\ b.bank = "IR"
    \/ a.bank = b.bank /\ a.idx < b.idx

RECURSIVE SortedRegisters(_)
\* the keys of a mapping, in a fixed order (the order of the members is not
\* significant to from_json when the keys are distinct)
SortedRegisters(S) ==
    IF S = {} THEN <<>>
    ELSE LET first == CHOOSE a \in S : \A b \in S \ {a} : RegisterBefore(a, b)
         IN <<first>> \o SortedRegisters(S \ {first})

\* RegisterCache.json
json(c) == [i \in 1..Cardinality(DOMAIN c) |->
               <<RegisterStr(SortedRegisters(DOMAIN c)[i]), c[SortedRegisters(DOMAIN c)[i]]>>]

\* k.find(ch): the 0-based position of the first ch, or -1
Find(k, ch) ==
    IF \E i \in 1..Len(k) : k[i] = ch
    THEN (CHOOSE i \in 1..Len(k) : k[i] = ch /\ \A j \in 1..(i - 1) : k[j] # ch) - 1
    ELSE -1

\* k.split(ch, maxsplit=1) of a k that holds ch
SplitOnce(k, ch) == <<SubSeq(k, 1, Find(k, ch)), SubSeq(k, Find(k, ch) + 2, Len(k))>>

\* idx[:-1]
DropLast(idx) == SubSeq(idx, 1, Len(idx) - 1)

\* whether int(idx) returns: the keys of the model hold no sign, blank or
\* underscore, so the literal is a non-empty run of digits
IsIntLiteral(idx) == Len(idx) > 0 /\ \A i \in 1..Len(idx) : IsDigit(idx[i])

RECURSIVE ParseInt(_)
\* int(idx)
ParseInt(idx) ==
    IF idx = <<>> THEN 0
    ELSE 10 * ParseInt(DropLast(idx)) + DigitValue(idx[Len(idx)])

\* InLookup of a lookup that falls back on a bank
InLookupWithDefault(reg) == TRUE

\* lookup = {"HR": HR, "IR": IR}
InLookup(reg) == reg \in {<<"H", "R">>, <<"I", "R">>}

Lookup(reg, n) == IF reg = <<"H", "R">> THEN HR(n) ELSE IR(n)

\* KeyParts without idx = idx[:-1]
KeyPartsKeepsParen(k) ==
    IF Find(k, "(") > 0
    THEN <<SplitOnce(k, "(")[1], SplitOnce(k, "(")[2]>>
    ELSE SplitOnce(k, ":")

\* KeyParts that looks for the ":" first
KeyPartsColonFirst(k) ==
    IF Find(k, ":") > 0
    THEN SplitOnce(k, ":")
    ELSE <<SplitOnce(k, "(")[1], DropLast(SplitOnce(k, "(")[2])>>

\* the bank text and the offset text of a key that has one of the two forms
KeyParts(k) ==
    IF Find(k, "(") > 0
    THEN <<SplitOnce(k, "(")[1], DropLast(SplitOnce(k, "(")[2])>>
    ELSE SplitOnce(k, ":")

HasForm(k) == Find(k, "(") > 0 \/ Find(k, ":") > 0

RECURSIVE register_object_hook(_, _)
\* the loop of register_object_hook over the members left, ret so far
register_object_hook(members, ret) ==
    IF members = <<>> THEN Ok(ret)
    ELSE LET k == Head(members)[1]
             v == Head(members)[2]
         IN IF ~HasForm(k) THEN Raise("ValueError", <<k>>)
            ELSE IF ~InLookup(KeyParts(k)[1]) THEN Raise("KeyError", <<KeyParts(k)[1]>>)
            ELSE IF ~IsIntLiteral(KeyParts(k)[2])
                 THEN register_object_hook(Tail(members), ret)
                 ELSE register_object_hook(Tail(members),
                          Put(ret, Lookup(KeyParts(k)[1], ParseInt(KeyParts(k)[2])), v))

\* RegisterCache.from_json
from_json(text) == register_object_hook(text, EmptyCache)

\* the keys of the texts handed to from_json
KeyBanks == {<<"H", "R">>, <<"I", "R">>, <<"X", "X">>}

KeyOffsets == {<<"5">>, <<"5", "7">>, <<"a", "b", "c">>}

KeySamples ==
    UNION {{b \o <<"(">> \o o \o <<")">>,
            b \o <<":">> \o o,
            b \o <<"(">> \o o,
            b \o o,
            b \o <<":">> \o o \o <<"(">> \o o \o <<")">>,
            b \o <<"(">> \o o \o <<":">> \o o \o <<")">>} : b \in KeyBanks, o \in KeyOffsets}

\* the text with the keys ks: the member at position i holds the word i
TextOf(ks) == [i \in 1..Len(ks) |-> <<ks[i], Some(i)>>]

(***************************************************************************)
(* State.                                                                  *)
(***************************************************************************)
\* RegisterCache(registers): empty, or pre-populated from a snapshot
Snapshots == UNION {[S -> {Some(w) : w \in Words}] : S \in SUBSET Registers}

Init ==
    /\ cache \in Snapshots
    /\ written = cache
    /\ last = NoCall

Idle == last.op = "none"

\* cache[r] = w
Set ==
    /\ Idle
    /\ \E r \in Registers, w \in Words :
           /\ cache' = Put(cache, r, Some(w))
           /\ written' = Put(written, r, Some(w))
           /\ last' = Call("set", <<r>>, Ok(None))

\* cache.get(r)
Get ==
    /\ Idle
    /\ \E r \in Registers : last' = Call("get", <<r>>, Ok(get(cache, r, None)))
    /\ UNCHANGED <<cache, written>>

\* the caller takes the result; the next call can start
Return ==
    /\ ~Idle
    /\ last' = NoCall
    /\ UNCHANGED <<cache, written>>

ToString ==
    /\ Idle
    /\ \E regs \in RegSeqs(MaxArgs) :
           /\ cache' = AfterReadUntilNone(cache, regs)
           /\ last' = Call("to_string", regs, to_string(cache, regs))
    /\ UNCHANGED written

ToHexString ==
    /\ Idle
    /\ \E regs \in RegSeqs(MaxArgs) :
           /\ cache' = AfterReadUntilNone(cache, regs)
           /\ last' = Call("to_hex_string", regs, to_hex_string(cache, regs))
    /\ UNCHANGED written

ToDuint8 ==
    /\ Idle
    /\ \E regs \in RegSeqs(MaxArgs) :
           /\ cache' = AfterReadUntilNone(cache, regs)
           /\ last' = Call("to_duint8", regs, to_duint8(cache, regs))
    /\ UNCHANGED written

ToUint32 ==
    /\ Idle
    /\ \E high_register, low_register \in Registers :
           /\ cache' = AfterReadUntilNone(cache, <<high_register, low_register>>)
           /\ last' = Call("to_uint32", <<high_register, low_register>>,
                           to_uint32(cache, high_register, low_register))
    /\ UNCHANGED written

ToDatetime ==
    /\ Idle
    /\ \E y, m, d, h, mi, s \in Registers :
           /\ cache' = AfterDatetime(cache, y, h, mi, s)
           /\ last' = Call("to_datetime", <<y, m, d, h, mi, s>>,
                           to_datetime(cache, y, m, d, h, mi, s))
    /\ UNCHANGED written

ToTimeslot ==
    /\ Idle
    /\ \E start, end \in Registers :
           /\ cache' = AfterReadAll(cache, <<start, end>>)
           /\ last' = Call("to_timeslot", <<start, end>>, to_timeslot(cache, start, end))
    /\ UNCHANGED written

\* cache.json()
Json ==
    /\ Idle
    /\ last' = Call("json", <<>>, Ok(json(cache)))
    /\ UNCHANGED <<cache, written>>

\* RegisterCache.from_json(text) of the text cache.json() has just returned
Reload ==
    /\ last.op = "json"
    /\ last' = Call("from_json", <<last.outcome.value>>, from_json(last.outcome.value))
    /\ UNCHANGED <<cache, written>>

\* RegisterCache.from_json(text) of a text from elsewhere
Load ==
    /\ Idle
    /\ \E n \in 0..MaxEntries : \E ks \in [1..n -> KeySamples] :
           last' = Call("from_json", <<TextOf(ks)>>, from_json(TextOf(ks)))
    /\ UNCHANGED <<cache, written>>

\* a call starts when the one before has returned
Next ==
    \/ Set
    \/ Get
    \/ ToString
    \/ ToHexString
    \/ ToDuint8
    \/ ToUint32
    \/ ToDatetime
    \/ ToTimeslot
    \/ Json
    \/ Reload
    \/ Return

Spec == Init /\ [][Next]_vars

(***************************************************************************)
(* Deserialization of texts from elsewhere: from_json is a class method    *)
(* and reads no existing cache.                                            *)
(***************************************************************************)
InitJson ==
    /\ cache = EmptyCache
    /\ written = cache
    /\ last = NoCall

NextJson ==
    \/ Load
    \/ Return

SpecJson == InitJson /\ [][NextJson]_vars

(***************************************************************************)
(* Rendering of single raw words: render is a pure function of its         *)
(* arguments.                                                              *)
(***************************************************************************)
Render ==
    /\ Idle
    /\ \E self \in Types, scaling \in Scalings, value \in RawWords :
           last' = Call("render", <<self, scaling, value>>, render(self, value, scaling))
    /\ UNCHANGED <<cache, written>>

NextRender ==
    \/ Render
    \/ Return

SpecRender == InitJson /\ [][NextRender]_vars

(***************************************************************************)
(* The helpers that combine raw words, as functions of the words held: the *)
(* cache is built from a snapshot and then only read.                      *)
(***************************************************************************)
\* the words of the snapshots: the ends of the range, the sign bit, digits,
\* upper-case and lower-case letters, punctuation, the sharp s
HelperWords == {0, 1, 2, 223, 255, 11615, 12345, 16706, 17220, 24930, 32768, 65535}

InitHelpers ==
    /\ cache \in UNION {[S -> {Some(w) : w \in HelperWords}] : S \in SUBSET Registers}
    /\ written = cache
    /\ last = NoCall

NextHelpers ==
    \/ ToString
    \/ ToHexString
    \/ ToDuint8
    \/ ToUint32
    \/ Return

SpecHelpers == InitHelpers /\ [][NextHelpers]_vars

(***************************************************************************)
(* A cache shared by two threads: one calls to_uint32 or to_hex_string,    *)
(* the other writes.  The class holds no lock, so the interpreter can      *)
(* switch threads between two subscript reads self[r] of one call.  A call *)
(* in progress is the record                                               *)
(*   [op |-> "running", call, args, reads, seen, writes]                   *)
(* reads: the words read so far; seen: the states of the cache since the   *)
(* call started; writes: the writes of the other thread since then.  The   *)
(* record of a finished call keeps seen.                                   *)
(***************************************************************************)
\* the largest number of writes of the other thread during one call
MaxWrites == 2

\* the words the writing thread stores
ThreadWords == {2, 13}

\* the registers a call reads, in the order of its subscript expressions
ReadPlan(call, args) == IF call = "to_uint32" THEN args ELSE args \o args

\* the value a call returns once every read has been made
ResultOfReads(call, reads) ==
    IF call = "to_uint32" THEN Uint32Of(reads[1], reads[2])
    ELSE HexOf(SubSeq(reads, 1, Len(reads) \div 2),
               SubSeq(reads, (Len(reads) \div 2) + 1, Len(reads)))

Running == last.op = "running"

NextRegister(run) == ReadPlan(run.call, run.args)[Len(run.reads) + 1]

\* the call record after the next subscript read of the call run, made on
\* the mapping c
AfterRead(run, c) ==
    LET r == NextRegister(run)
        seen == run.seen \cup {AfterGetItem(c, r)}
        reads == Append(run.reads, GetItem(c, r)[1])
    IN IF GetItem(c, r) = None
       THEN [op |-> run.call, args |-> run.args,
             outcome |-> Raise("TypeError", <<>>), seen |-> seen]
       ELSE IF Len(reads) = Len(ReadPlan(run.call, run.args))
            THEN [op |-> run.call, args |-> run.args,
                  outcome |-> Ok(ResultOfReads(run.call, reads)), seen |-> seen]
            ELSE [run EXCEPT !.reads = reads, !.seen = seen]

\* the calls of the reading thread
ThreadCalls ==
    {<<"to_uint32", <<h, l>>>> : h, l \in Registers}
        \cup {<<"to_hex_string", regs>> : regs \in RegSeqs(MaxArgs) \ {<<>>}}

\* the reading thread enters a helper and makes its first read
ThreadCall ==
    /\ Idle
    /\ \E tc \in ThreadCalls :
           /\ last' = AfterRead([op |-> "running", call |-> tc[1], args |-> tc[2],
                                  reads |-> <<>>, seen |-> {cache}, writes |-> 0], cache)
           /\ cache' = AfterGetItem(cache, tc[2][1])
    /\ UNCHANGED written

\* the reading thread makes the next read of the call in progress
ThreadRead ==
    /\ Running
    /\ last' = AfterRead(last, cache)
    /\ cache' = AfterGetItem(cache, NextRegister(last))
    /\ UNCHANGED written

\* the writing thread runs cache[r] = w, between two calls of the reading
\* thread or between two reads of one call
ThreadWrite ==
    /\ Idle \/ (Running /\ last.writes < MaxWrites)
    /\ \E r \in Registers, w \in ThreadWords :
           /\ cache' = Put(cache, r, Some(w))
           /\ written' = Put(written, r, Some(w))
           /\ last' = IF Running
                      THEN [last EXCEPT !.seen = @ \cup {Put(cache, r, Some(w))},
                                        !.writes = @ + 1]
                      ELSE last

\* the reading thread's caller takes the result
ThreadReturn ==
    /\ ~Idle
    /\ ~Running
    /\ last' = NoCall
    /\ UNCHANGED <<cache, written>>

InitThreads ==
    /\ cache \in {EmptyCache, [r \in Registers |-> Some(0)]}
    /\ written = cache
    /\ last = NoCall

NextThreads ==
    \/ ThreadCall
    \/ ThreadRead
    \/ ThreadWrite
    \/ ThreadReturn

SpecThreads == InitThreads /\ [][NextThreads]_vars

(***************************************************************************)
(* Properties.                                                             *)
(***************************************************************************)
\* the identities a call was given
Args == last.args

\* an identity is present when a word has been written to it
Present(r) == r \in DOMAIN written

\* the first identity of regs, in call order, that has never been written
FirstAbsent(regs) ==
    regs[CHOOSE i \in 1..Len(regs) :
             /\ ~Present(regs[i])
             /\ \A j \in 1..(i - 1) : Present(regs[j])]

InCalendar(t) ==
    /\ t.year \in 1..9999
    /\ t.month \in 1..12
    /\ t.day \in 1..DaysInMonth(t.year, t.month)
    /\ t.hour \in 0..23
    /\ t.minute \in 0..59
    /\ t.second \in 0..59

\* year 2000, month 1, the remaining fields at their lowest value
SentinelTimestamp == Timestamp(2000, 1, 1, 0, 0, 0)

\* the word written to r, or default when none has been
WrittenOr(r, default) == IF Present(r) THEN written[r][1] ELSE default

\* the timestamp of the six identities of a to_datetime call whose year,
\* hour, minute and second are present
FieldsOf(regs) ==
    Timestamp(WrittenOr(regs[1], 0) + 2000, WrittenOr(regs[2], 1), WrittenOr(regs[3], 1),
              WrittenOr(regs[4], 0), WrittenOr(regs[5], 0), WrittenOr(regs[6], 0))

RequiredPresent(regs) == \A i \in {1, 4, 5, 6} : Present(regs[i])

\* C1: to_datetime never raises: when year, hour, minute or second is Absent
\* or a field is out of calendar range, it returns the sentinel timestamp.
C1_ToDatetimeNeverRaises ==
    last.op = "to_datetime" =>
        /\ last.outcome.kind = "ok"
        /\ (~RequiredPresent(Args) \/ ~InCalendar(FieldsOf(Args)))
               => last.outcome.value = SentinelTimestamp

MissingRegisterHelpers ==
    {"to_string", "to_hex_string", "to_duint8", "to_uint32", "to_timeslot"}

\* C2: to_string, to_hex_string, to_duint8, to_uint32 and to_timeslot given
\* an identity never written fail with a key-lookup error naming it.
C2_MissingRegisterNamesIdentity ==
    (last.op \in MissingRegisterHelpers /\ \E i \in 1..Len(Args) : ~Present(Args[i])) =>
        /\ last.outcome.kind = "raise"
        /\ last.outcome.exc = "KeyError"
        /\ last.outcome.names = <<FirstAbsent(Args)>>

\* C3: deserializing the serialized cache gives a cache with exactly the
\* same identity-to-word pairs, also for offsets outside the static tables.
C3_RoundTrip == last.op = "from_json" => last.outcome = Ok(cache)

C3_RoundTripReached ==
    /\ last.op = "from_json"
    /\ last.outcome.kind = "ok"
    /\ DOMAIN cache = Registers
    /\ cache[IR(400)] = Some(255)
    /\ cache[HR(57)] = Some(0)

\* the keys of the claim about deserialization errors, by how they are built
RecognizedBanks == {<<"H", "R">>, <<"I", "R">>}

OffsetNumbers == {5, 57}

\* <<key, identity>> for the keys of the two forms with a recognized bank
\* and a decimal offset
GoodKeys ==
    UNION {{<<b \o <<"(">> \o Decimal(n) \o <<")">>, Lookup(b, n)>>,
            <<b \o <<":">> \o Decimal(n), Lookup(b, n)>>} :
               b \in RecognizedBanks, n \in OffsetNumbers}

IsGoodKey(k) == \E g \in GoodKeys : g[1] = k

IdentityOfKey(k) == (CHOOSE g \in GoodKeys : g[1] = k)[2]

\* the keys of the two forms with a recognized bank and an offset that is
\* no integer
UnparsableKeys ==
    UNION {{b \o <<"(", "a", "b", "c", ")">>, b \o <<":", "a", "b", "c">>} :
               b \in RecognizedBanks}

\* the keys with an unrecognized bank abbreviation, and the keys of neither
\* form
FatalKeys ==
    UNION {{<<"X", "X", "(">> \o o \o <<")">>, <<"X", "X", ":">> \o o, b \o o} :
               b \in KeyBanks, o \in KeyOffsets}

RECURSIVE EntriesOfGoodKeys(_, _)
\* the entries of the members whose key is good, a later member replacing
\* an earlier one of the same identity
EntriesOfGoodKeys(members, ret) ==
    IF members = <<>> THEN ret
    ELSE EntriesOfGoodKeys(Tail(members),
             IF IsGoodKey(Head(members)[1])
             THEN Put(ret, IdentityOfKey(Head(members)[1]), Head(members)[2])
             ELSE ret)

KeysOf(text) == {text[i][1] : i \in 1..Len(text)}

\* C4: a key with an unrecognized bank, or of neither form, fails the whole
\* from_json call; a key with a recognized bank and an unparsable offset is
\* dropped and every other entry is in the result.
C4_DeserializeErrorPolicy ==
    last.op = "from_json" =>
        /\ KeysOf(Args[1]) \cap FatalKeys # {} => last.outcome.kind = "raise"
        /\ (\A k \in KeysOf(Args[1]) : IsGoodKey(k) \/ k \in UnparsableKeys)
               => last.outcome = Ok(EntriesOfGoodKeys(Args[1], EmptyCache))

C4_EntryDroppedReached ==
    /\ last.op = "from_json"
    /\ Len(Args[1]) = 2
    /\ Args[1][1][1] = <<"H", "R", "(", "a", "b", "c", ")">>
    /\ Args[1][2][1] = <<"I", "R", ":", "5", "7">>
    /\ last.outcome = Ok(Put(EmptyCache, IR(57), Some(2)))

\* C5: to_hex_string returns the empty string when a register it is given
\* holds 0.
C5_HexStringOfZeroIsEmpty ==
    (/\ last.op = "to_hex_string"
     /\ last.outcome.kind = "ok"
     /\ \E i \in 1..Len(Args) : written[Args[i]] = Some(0))
        => last.outcome.value = <<>>

\* C6: render returns a value for every kind, scaling and raw word, and the
\* value of an ASCII render has two characters.
C6_RenderTotal ==
    last.op = "render" =>
        /\ last.outcome.kind = "ok"
        /\ Args[1] = "ASCII" => Len(last.outcome.value) = 2

\* C7: render(SWORD, UNIT, v) is v below 32768 and v - 65536 from there on,
\* so it lies in -32768..32767.
C7_SignedWord ==
    (last.op = "render" /\ Args[1] = "SWORD" /\ Args[2] = "UNIT") =>
        /\ last.outcome = Ok(IF Args[3] < 32768 THEN Args[3] ELSE Args[3] - 65536)
        /\ last.outcome.value \in -32768..32767

C7_SignBitReached ==
    /\ last.op = "render"
    /\ Args = <<"SWORD", "UNIT", 32768>>
    /\ last.outcome = Ok(-32768)

\* C8: get returns the word most recently written to the identity, and the
\* Absent indicator, which is not the word 0, for an identity never
\* written; a set changes the entry of its identity only.
C8_GetReturnsLastWritten ==
    /\ \A r \in Registers : get(cache, r, None) = (IF Present(r) THEN written[r] ELSE None)
    /\ \A r \in Registers : ~Present(r) => get(cache, r, None) # Some(0)
    /\ last.op = "get" =>
           last.outcome = Ok(IF Present(Args[1]) THEN written[Args[1]] ELSE None)

C8_GetReached ==
    /\ last.op = "get"
    /\ Args[1] = IR(400)
    /\ last.outcome = Ok(Some(0))
    /\ ~Present(HR(5))
    /\ HR(5) \in DOMAIN cache

\* C9: get and the composition helpers leave the entries of the cache as
\* they are: the cache holds an entry for the identities written and for no
\* other, a helper given an Absent identity creates none.
C9_ReadsCreateNoEntry == cache = written

\* C10: to_datetime over present year, hour, minute and second, month and
\* day present or never written, and fields in range, returns the timestamp
\* of those fields, whatever was read from the cache before.
C10_ToDatetimeFields ==
    (last.op = "to_datetime" /\ RequiredPresent(Args) /\ InCalendar(FieldsOf(Args)))
        => last.outcome = Ok(FieldsOf(Args))

\* C11: no torn read: the value a to_uint32 call on a pair of two registers,
\* or a to_hex_string call, returns while another thread writes is the value
\* of the helper on one single state the cache had during the call.
C11_NoTornRead ==
    (/\ last.op \in {"to_uint32", "to_hex_string"}
     /\ last.outcome.kind = "ok"
     /\ last.op = "to_uint32" => Args[1] # Args[2]) =>
        \E c \in last.seen :
            last.outcome = (IF last.op = "to_uint32"
                            THEN to_uint32(c, Args[1], Args[2])
                            ELSE to_hex_string(c, Args))

\* the words written to the identities of a call, in call order
RawWritten(regs) == [i \in 1..Len(regs) |-> written[regs[i]][1]]

AllPresent(regs) == \A i \in 1..Len(regs) : Present(regs[i])

\* a sequence of base-10000 digits without its leading zeros
Canonical(limbs) ==
    IF Len(limbs) = 3 /\ limbs[3] = 0
    THEN (IF limbs[2] = 0 THEN <<limbs[1]>> ELSE <<limbs[1], limbs[2]>>)
    ELSE limbs

\* h * 65536 + l in base 10000, from 65536 = 6 * 10000 + 5536
Times65536Plus(h, l) ==
    Canonical(<<(h * 5536 + l) % 10000,
                (h * 6 + ((h * 5536 + l) \div 10000)) % 10000,
                (h * 6 + ((h * 5536 + l) \div 10000)) \div 10000>>)

\* 0 <= a <= 4294967295, for a in base 10000
InUint32(a) ==
    /\ Len(a) \in 1..3
    /\ \A i \in 1..Len(a) : a[i] \in 0..9999
    /\ Len(a) = 3 => \/ a[3] < 42
                     \/ a[3] = 42 /\ a[2] < 9496
                     \/ a[3] = 42 /\ a[2] = 9496 /\ a[1] <= 7295

\* C12: to_uint32 over two present identities holding h and l returns
\* h * 65536 + l, a value of 0..4294967295, whatever the two identities are.
C12_Uint32Value ==
    (last.op = "to_uint32" /\ AllPresent(Args)) =>
        /\ last.outcome = Ok(Times65536Plus(RawWritten(Args)[1], RawWritten(Args)[2]))
        /\ InUint32(last.outcome.value)

C12_Uint32Reached ==
    /\ last.op = "to_uint32"
    /\ Args = <<IR(400), HR(5)>>
    /\ AllPresent(Args)
    /\ written[IR(400)] = Some(1)
    /\ written[HR(5)] = Some(2)
    /\ last.outcome = Ok(<<5538, 6>>)

\* the characters of the words: the high byte of each, then its low byte
CharsOf(words) ==
    [j \in 1..(2 * Len(words)) |->
        IF j % 2 = 1 THEN words[(j + 1) \div 2] \div 256 ELSE words[j \div 2] % 256]

AsciiWords(words) == \A j \in 1..(2 * Len(words)) : CharsOf(words)[j] < 128

AsciiAlnum(ch) == ch \in (48..57) \cup (65..90) \cup (97..122)

\* the upper-case ASCII letters and the digits
UpperOrDigit == (48..57) \cup (65..90)

\* the alphanumeric ASCII characters of chars, the letters in upper case
AsciiAlnumUpper(chars) ==
    [j \in 1..Len(SelectSeq(chars, AsciiAlnum)) |->
        IF SelectSeq(chars, AsciiAlnum)[j] \in 97..122
        THEN SelectSeq(chars, AsciiAlnum)[j] - 32
        ELSE SelectSeq(chars, AsciiAlnum)[j]]

\* C13: to_string over present identities returns the high and the low byte
\* of each word in call order as characters, the non-alphanumeric ones
\* removed and the others in upper case; for words of ASCII bytes that is at
\* most two characters a word, each of A-Z or 0-9.
C13_ToStringText ==
    (last.op = "to_string" /\ AllPresent(Args)) =>
        /\ last.outcome.kind = "ok"
        /\ last.outcome.value =
               Flatten([j \in 1..(2 * Len(Args)) |->
                           IF IsAlnum(CharsOf(RawWritten(Args))[j])
                           THEN UpperChar(CharsOf(RawWritten(Args))[j])
                           ELSE <<>>])
        /\ AsciiWords(RawWritten(Args)) =>
               /\ last.outcome.value = AsciiAlnumUpper(CharsOf(RawWritten(Args)))
               /\ Len(last.outcome.value) <= 2 * Len(Args)
               /\ \A j \in 1..Len(last.outcome.value) :
                      last.outcome.value[j] \in UpperOrDigit

C13_ToStringReached ==
    /\ last.op = "to_string"
    /\ Args = <<HR(5), HR(57)>>
    /\ AllPresent(Args)
    /\ RawWritten(Args) = <<16706, 17220>>
    /\ last.outcome = Ok(<<65, 66, 67, 68>>)

\* C14: to_duint8 over n present identities returns 2n values of 0..255, the
\* high byte and then the low byte of each word in call order, so that
\* 256 times the first plus the second is the word.
C14_Duint8Bytes ==
    (last.op = "to_duint8" /\ AllPresent(Args)) =>
        /\ last.outcome.kind = "ok"
        /\ Len(last.outcome.value) = 2 * Len(Args)
        /\ \A i \in 1..Len(Args) :
               /\ last.outcome.value[2 * i - 1] \in 0..255
               /\ last.outcome.value[2 * i] \in 0..255
               /\ last.outcome.value[2 * i - 1] = RawWritten(Args)[i] \div 256
               /\ last.outcome.value[2 * i] = RawWritten(Args)[i] % 256
               /\ last.outcome.value[2 * i - 1] * 256 + last.outcome.value[2 * i]
                      = RawWritten(Args)[i]

C14_Duint8Reached ==
    /\ last.op = "to_duint8"
    /\ Args = <<HR(57), IR(400)>>
    /\ AllPresent(Args)
    /\ RawWritten(Args) = <<65535, 12345>>
    /\ last.outcome = Ok(<<255, 255, 48, 57>>)

\* the character of the hexadecimal digit d, in upper case
UpperHexChar(d) == IF d < 10 THEN 48 + d ELSE 55 + d

\* the four hexadecimal digits of each word, the highest first
UpperHexOf(words) ==
    [j \in 1..(4 * Len(words)) |->
        UpperHexChar((words[(j + 3) \div 4] \div (16 ^ (3 - ((j - 1) % 4)))) % 16)]

\* C18: to_hex_string over n present identities holding nonzero words
\* returns 4n characters: each word in call order as four zero-padded
\* upper-case hexadecimal digits.
C18_HexStringDigits ==
    (/\ last.op = "to_hex_string"
     /\ AllPresent(Args)
     /\ \A i \in 1..Len(Args) : RawWritten(Args)[i] # 0) =>
        /\ last.outcome.kind = "ok"
        /\ Len(last.outcome.value) = 4 * Len(Args)
        /\ last.outcome.value = UpperHexOf(RawWritten(Args))

C18_HexStringReached ==
    /\ last.op = "to_hex_string"
    /\ Args = <<IR(400), HR(5)>>
    /\ AllPresent(Args)
    /\ RawWritten(Args) = <<255, 11615>>
    /\ last.outcome = Ok(<<48, 48, 70, 70, 50, 68, 53, 70>>)

CanonicalKey(b, n) == b \o <<"(">> \o Decimal(n) \o <<")">>

LegacyKey(b, n) == b \o <<":">> \o Decimal(n)

\* the identity of a recognized bank abbreviation and an offset
IdentityOf(b, n) == [bank |-> IF b = <<"H", "R">> THEN "HR" ELSE "IR", idx |-> n]

\* the keys that hold a "(" after the first character, a ":" and a final
\* ")": <<key, text before the "(", text between the "(" and the ")">>
BothSeparatorKeys ==
    UNION {{<<b \o <<":">> \o o \o <<"(">> \o o \o <<")">>, b \o <<":">> \o o, o>>,
            <<b \o <<"(">> \o o \o <<":">> \o o \o <<")">>, b, o \o <<":">> \o o>>} :
               b \in KeyBanks, o \in KeyOffsets}

\* C15: a member with the legacy key "<Bank>:<n>" gives what the same member
\* with the canonical key "<Bank>(<n>)" gives, the entry of identity
\* (Bank, n); a key with a "(" after its first character and a ":" is split
\* at the "(": the text before it is the bank abbreviation, and since the
\* offset text of these keys is no integer the member is dropped when the
\* abbreviation is recognized.
C15_LegacyKeyForm ==
    last.op = "from_json" =>
        /\ \A i \in 1..Len(Args[1]), b \in RecognizedBanks, n \in OffsetNumbers :
               Args[1][i][1] = LegacyKey(b, n) =>
                   /\ last.outcome =
                          from_json([Args[1] EXCEPT ![i] = <<CanonicalKey(b, n), @[2]>>])
                   /\ Len(Args[1]) = 1 =>
                          last.outcome = Ok(Put(EmptyCache, IdentityOf(b, n), Args[1][i][2]))
        /\ \A m \in BothSeparatorKeys :
               (Len(Args[1]) > 0 /\ Args[1][1][1] = m[1]) =>
                   IF m[2] \in RecognizedBanks
                   THEN last.outcome = from_json(Tail(Args[1]))
                   ELSE last.outcome.kind = "raise" /\ last.outcome.names = <<m[2]>>

C15_LegacyKeyReached ==
    /\ last.op = "from_json"
    /\ Len(Args[1]) = 2
    /\ Args[1][1][1] = <<"I", "R", "(", "5", ":", "5", ")">>
    /\ Args[1][2][1] = <<"I", "R", ":", "5", "7">>
    /\ last.outcome = Ok(Put(EmptyCache, IR(57), Some(2)))

\* C16: render(BOOL, UNIT, v) is true exactly when v is odd.
C16_BoolIsLowestBit ==
    (last.op = "render" /\ Args[1] = "BOOL" /\ Args[2] = "UNIT") =>
        last.outcome = Ok(Args[3] % 2 = 1)

C16_BoolReached ==
    /\ last.op = "render"
    /\ Args = <<"BOOL", "UNIT", 65534>>
    /\ last.outcome = Ok(FALSE)

\* C17: for BOOL and ASCII, and a word render returns a value for, the value
\* is the same under UNIT, DECI and CENTI.
C17_ScalingIgnored ==
    (last.op = "render" /\ Args[1] \in {"BOOL", "ASCII"} /\ last.outcome.kind = "ok") =>
        \A scaling \in Scalings : render(Args[1], Args[3], scaling) = last.outcome

C17_ScalingReached ==
    /\ last.op = "render"
    /\ Args = <<"ASCII", "CENTI", 16706>>
    /\ last.outcome = Ok(<<65, 66>>)

\* C19: from_json makes an entry for identity (bank, n) only from a key that
\* is exactly "<Bank>(<n>)" or "<Bank>:<n>".
C19_OnlyExactKeyForms ==
    (last.op = "from_json" /\ last.outcome.kind = "ok") =>
        \A id \in DOMAIN last.outcome.value :
            \E b \in RecognizedBanks :
                /\ id = IdentityOf(b, id.idx)
                /\ KeysOf(Args[1]) \cap {CanonicalKey(b, id.idx), LegacyKey(b, id.idx)} # {}

\* the quotient and the remainder of a by 65536, for a in base 10000 below
\* 2^32
DivMod65536(a) ==
    LET t2 == (BigLimb(a, 3) % 65536) * 10000 + BigLimb(a, 2)
        t1 == (t2 % 65536) * 10000 + BigLimb(a, 1)
    IN <<(t2 \div 65536) * 10000 + (t1 \div 65536), t1 % 65536>>

\* C20: to_uint32 over identities holding h and l is
\* render(DWORD_HIGH, UNIT, h) + render(DWORD_LOW, UNIT, l), the first being
\* h * 65536 and the second l; the quotient and the remainder of the result
\* by 65536 are h and l.
C20_DoubleWordPathsAgree ==
    (last.op = "to_uint32" /\ AllPresent(Args)) =>
        /\ render("DWORD_HIGH", RawWritten(Args)[1], "UNIT")
               = Ok(Times65536Plus(RawWritten(Args)[1], 0))
        /\ render("DWORD_LOW", RawWritten(Args)[2], "UNIT") = Ok(RawWritten(Args)[2])
        /\ last.outcome =
               Ok(BigAdd(render("DWORD_HIGH", RawWritten(Args)[1], "UNIT").value,
                         ToBig(render("DWORD_LOW", RawWritten(Args)[2], "UNIT").value)))
        /\ DivMod65536(last.outcome.value) = RawWritten(Args)

C20_DoubleWordReached ==
    /\ last.op = "to_uint32"
    /\ Args = <<HR(5), IR(400)>>
    /\ AllPresent(Args)
    /\ RawWritten(Args) = <<65535, 32768>>
    /\ last.outcome = Ok(<<4528, 9493, 42>>)

====
